---------------------------- MODULE Spec2Model ----------------------------
(***************************************************************************)
(* A model of the audiobook generator backend:                             *)
(*   - KokoroTTSService (src/src/backend/tts_service.py): the voice        *)
(*     catalog, the lazy model load, generate_audio, customize_voice,      *)
(*     get_available_voices and _process_params;                           *)
(*   - GeminiService (src/src/backend/gemini_service.py): the text         *)
(*     validation, identify_characters, identify_dialogue, suggest_voices, *)
(*     the mock analyses behind them, and CharacterInfo with its           *)
(*     dictionary conversions.                                             *)
(*                                                                         *)
(* Numbers that are Python floats in the source (pitch, speed) are kept    *)
(* in fixed point, in hundredths: 0.5 is 50, 2.0 is 200, -10.0 is -1000.   *)
(* A text is kept by its length and its number of words: no operation of   *)
(* the model reads its characters.                                         *)
(***************************************************************************)
EXTENDS Integers, Sequences, FiniteSets, TLC

VARIABLES
    \* ---- _process_params, called on its own (SpecParams)
    pp_params,          \* the raw parameter mapping passed in
    pp_pc,              \* "call" | "done"
    pp_result,          \* the outcome of the call
    \* ---- GeminiService.identify_dialogue (SpecDialogue)
    api_key,            \* TRUE when a provider key is configured
    text_length,        \* len(text)
    characters,         \* the roster passed in: a sequence of characters
    d_pc,               \* position in identify_dialogue
    d_i,                \* loop counter of _mock_dialogue_analysis
    current_pos,        \* current_pos of _mock_dialogue_analysis
    mock_dialogues,     \* the dictionaries appended so far
    d_result,           \* the outcome of identify_dialogue
    \* ---- GeminiService.identify_characters (SpecCharacters)
    c_pc,               \* position in identify_characters
    c_requested,        \* TRUE once _make_api_request was called
    c_analysed,         \* TRUE once _mock_character_analysis ran
    c_response,         \* the response dictionary, a sequence of length 0 or 1
    c_result,           \* the outcome of identify_characters
    \* ---- GeminiService.suggest_voices (SpecSuggest)
    s_pc,               \* position in suggest_voices
    s_char_list,        \* what _mock_voice_suggestions was handed
    s_result,           \* the outcome of suggest_voices
    \* ---- CharacterInfo (SpecCharacterInfo)
    ci_pc,              \* position in the construct / to_dict / from_dict run
    ci_via,             \* "init": built by __init__, "from_dict": by from_dict
    ci_in,              \* the keyword arguments, or the dictionary, passed in
    ci_char,            \* the CharacterInfo built, a sequence of length 0 or 1
    ci_dict,            \* its to_dict(), a sequence of length 0 or 1
    ci_back,            \* from_dict of that, a sequence of length 0 or 1
    \* ---- KokoroTTSService (Spec)
    initialized,        \* self.initialized
    model,              \* self.model
    available_voices,   \* self.available_voices
    pc,                 \* per thread: position in the running call
    call,               \* per thread: the running call and its arguments
    loc,                \* per thread: the locals of the running call
    result,             \* per thread: the outcome of the last call
    files,              \* the audio files written, as (thread, call number)
    ncalls              \* calls started so far

parVars == <<pp_params, pp_pc, pp_result>>
gemVars == <<api_key, text_length, characters, d_pc, d_i, current_pos,
             mock_dialogues, d_result>>
ttsVars == <<initialized, model, available_voices, pc, call, loc, result,
             files, ncalls>>
chrVars == <<c_pc, c_requested, c_analysed, c_response, c_result>>
sugVars == <<s_pc, s_char_list, s_result>>
ciVars == <<ci_pc, ci_via, ci_in, ci_char, ci_dict, ci_back>>
vars == <<parVars, gemVars, ttsVars, chrVars, sugVars, ciVars>>

Min(a, b) == IF a <= b THEN a ELSE b
Max(a, b) == IF a >= b THEN a ELSE b

(***************************************************************************)
(* Outcomes.  A call either returns a value or raises an exception; the    *)
(* exception is kept by its Python class (kind) and its message (msg).     *)
(* value is a sequence of length 0 (nothing returned) or 1.                *)
(***************************************************************************)
Return(v) == [ok |-> TRUE, kind |-> "", msg |-> "", value |-> <<v>>]
Raise(k, m) == [ok |-> FALSE, kind |-> k, msg |-> m, value |-> <<>>]
NoResult == [ok |-> FALSE, kind |-> "", msg |-> "", value |-> <<>>]

(***************************************************************************)
(* Python values of a raw parameter mapping.  t is the value's type        *)
(* ("absent": the key is not in the mapping), n its number in hundredths,  *)
(* s its string, l its list.                                               *)
(***************************************************************************)
Absent == [t |-> "absent", n |-> 0, s |-> "", l |-> <<>>]
PyNone == [t |-> "none", n |-> 0, s |-> "", l |-> <<>>]
Num(x) == [t |-> "num", n |-> x, s |-> "", l |-> <<>>]
PyBool(b) == [t |-> "bool", n |-> IF b THEN 100 ELSE 0, s |-> "", l |-> <<>>]
Str(x) == [t |-> "str", n |-> 0, s |-> x, l |-> <<>>]
List(x) == [t |-> "list", n |-> 0, s |-> "", l |-> x]

\* "key" in params
Has(v) == v.t # "absent"
\* isinstance(v, (int, float)); bool is a subclass of int
IsNumber(v) == v.t \in {"num", "bool"}
IsStr(v) == v.t = "str"
IsList(v) == v.t = "list"

PitchMin == -1000
PitchMax == 1000
SpeedMin == 50
SpeedMax == 200
DefaultPitch == 0
DefaultSpeed == 100
valid_emotions == {"neutral", "happy", "sad", "angry"}

EmptyParams == [pitch |-> Absent, speed |-> Absent, emotion |-> Absent,
                emphasis |-> Absent]


(***************************************************************************)
(* KokoroTTSService._process_params.  The four keys are processed in the   *)
(* order pitch, speed, emotion, emphasis; the first check that fails       *)
(* raises ValueError and nothing is returned.                              *)
(***************************************************************************)
PitchInRange_Strict(n) == ~(n <= PitchMin \/ n >= PitchMax)
PitchInRange(n) == ~(n < PitchMin \/ n > PitchMax)

SpeedInRange(n) == ~(n < SpeedMin \/ n > SpeedMax)

ProcessPitch(params) ==
    IF Has(params.pitch)
    THEN IF ~IsNumber(params.pitch)
         THEN Raise("ValueError", "Pitch must be a number")
         ELSE IF ~PitchInRange(params.pitch.n)
              THEN Raise("ValueError", "Pitch must be between -10.0 and 10.0")
              ELSE Return(params.pitch)
    ELSE Return(Num(DefaultPitch))

ProcessSpeed(params) ==
    IF Has(params.speed)
    THEN IF ~IsNumber(params.speed)
         THEN Raise("ValueError", "Speed must be a number")
         ELSE IF ~SpeedInRange(params.speed.n)
              THEN Raise("ValueError", "Speed must be between 0.5 and 2.0")
              ELSE Return(params.speed)
    ELSE Return(Num(DefaultSpeed))

ProcessEmotion_Defaulting(params) ==
    IF Has(params.emotion) /\ IsStr(params.emotion)
       /\ params.emotion.s \in valid_emotions
    THEN Return(params.emotion)
    ELSE Return(Str("neutral"))
ProcessEmotion(params) ==
    IF Has(params.emotion)
    THEN IF ~IsStr(params.emotion)
         THEN Raise("ValueError", "Emotion must be a string")
         ELSE IF params.emotion.s \notin valid_emotions
              THEN Raise("ValueError", "Emotion must be one of")
              ELSE Return(params.emotion)
    ELSE Return(Str("neutral"))

ProcessEmphasis(params) ==
    IF Has(params.emphasis)
    THEN IF ~IsList(params.emphasis)
         THEN Raise("ValueError", "Emphasis must be a list of words")
         ELSE Return(params.emphasis)
    ELSE Return(List(<<>>))

ProcessParams(params) ==
    LET p == ProcessPitch(params) IN
    IF ~p.ok THEN Raise(p.kind, p.msg) ELSE
    LET s == ProcessSpeed(params) IN
    IF ~s.ok THEN Raise(s.kind, s.msg) ELSE
    LET e == ProcessEmotion(params) IN
    IF ~e.ok THEN Raise(e.kind, e.msg) ELSE
    LET m == ProcessEmphasis(params) IN
    IF ~m.ok THEN Raise(m.kind, m.msg) ELSE
    Return([pitch |-> p.value[1], speed |-> s.value[1],
            emotion |-> e.value[1], emphasis |-> m.value[1]])

(***************************************************************************)
(* The raw parameter mappings _process_params is checked on: every         *)
(* combination of an absent key, values of the wrong type, numbers within  *)
(* Probe hundredths of each range boundary (on both sides) and the         *)
(* defaults, known and unknown emotions, lists and non-lists.              *)
(***************************************************************************)
Probe == 2

PitchValues ==
    {Absent, PyNone, Str("high"), PyBool(TRUE), Num(DefaultPitch)}
    \cup {Num(PitchMin + k) : k \in (-Probe)..Probe}
    \cup {Num(PitchMax + k) : k \in (-Probe)..Probe}
SpeedValues ==
    {Absent, PyNone, Str("fast"), PyBool(TRUE), PyBool(FALSE), Num(DefaultSpeed)}
    \cup {Num(SpeedMin + k) : k \in (-Probe)..Probe}
    \cup {Num(SpeedMax + k) : k \in (-Probe)..Probe}
EmotionValues ==
    {Absent, PyNone, Num(100), Str("bored")} \cup {Str(e) : e \in valid_emotions}
EmphasisValues ==
    {Absent, PyNone, Str("word"), List(<<>>), List(<<"word">>)}
RawParams ==
    [pitch : PitchValues, speed : SpeedValues, emotion : EmotionValues,
     emphasis : EmphasisValues]

ParIdle ==
    /\ pp_params = EmptyParams
    /\ pp_pc = "idle"
    /\ pp_result = NoResult

ParInit ==
    /\ pp_params \in RawParams
    /\ pp_pc = "call"
    /\ pp_result = NoResult

CallProcessParams ==
    /\ pp_pc = "call"
    /\ pp_result' = ProcessParams(pp_params)
    /\ pp_pc' = "done"
    /\ UNCHANGED pp_params
    /\ UNCHANGED <<gemVars, ttsVars, chrVars, sugVars, ciVars>>


(***************************************************************************)
(* GeminiService.  A character name is kept as the pair the source formats *)
(* it from: "Narrator" is (Narrator, 0), f"Character {i}" is               *)
(* (Character, i).  A slice text[a:b] is kept by its two ends.             *)
(***************************************************************************)
MaxTextChars == 1000000

Name(b, k) == [base |-> b, n |-> k]
NarratorName == Name("Narrator", 0)
CharacterName(i) == Name("Character", i)

\* text[a:b] of a text of length len, for 0 <= a
Slice(a, b, len) == [from |-> Min(a, len), to |-> Max(Min(a, len), Min(b, len))]
\* text[a:]
SliceFrom(a, len) == [from |-> Min(a, len), to |-> len]

\* _validate_text_input: the outcome for a text (a str) of the given length
ValidateTextInput_Exclusive(len) ==
    IF len = 0 THEN Raise("ValueError", "Text cannot be empty")
    ELSE IF len >= MaxTextChars THEN Raise("ValueError", "Text is too long")
    ELSE Return("valid")
ValidateTextInput(len) ==
    IF len = 0 THEN Raise("ValueError", "Text cannot be empty")
    ELSE IF len > MaxTextChars THEN Raise("ValueError", "Text is too long")
    ELSE Return("valid")

\* _mock_character_analysis: the roster of a text of the given length
NumCharacters_Unclamped(len) == Max(2, len \div 10000)
NumCharacters(len) == Min(Max(2, len \div 10000), 10)
MockCharacter_Unnumbered(i, len) ==
    [name |-> IF i = 0 THEN NarratorName ELSE CharacterName(0),
     is_narrator |-> (i = 0),
     gender |-> IF i = 0 THEN "None" ELSE IF i % 2 = 0 THEN "male" ELSE "female",
     dialogue_count |-> (len \div 500) * (IF i = 0 THEN 3 ELSE 1)]
MockCharacter(i, len) ==
    [name |-> IF i = 0 THEN NarratorName ELSE CharacterName(i),
     is_narrator |-> (i = 0),
     gender |-> IF i = 0 THEN "None" ELSE IF i % 2 = 0 THEN "male" ELSE "female",
     dialogue_count |-> (len \div 500) * (IF i = 0 THEN 3 ELSE 1)]
MockCharacterAnalysis(len) ==
    [k \in 1..NumCharacters(len) |-> MockCharacter(k - 1, len)]

\* _mock_dialogue_analysis: the values computed from the text length
NumDialogues(len) == Min(Max(5, len \div 5000), 50)
DialogueLength(len) == Min(100, len \div NumDialogues(len))
NarrativeSkip(len) == Min(500, len \div (NumDialogues(len) * 2))
MockSpeaker(i) ==
    IF i % 3 = 0 THEN NarratorName ELSE CharacterName(i % 3)
MockEmotion(i) == <<"neutral", "happy", "sad", "angry">>[(i % 4) + 1]
\* line 466: current_pos += dialogue_length
AdvancePast_Forgotten(pos, dl) == pos
AdvancePast(pos, dl) == pos + dl
\* lines 456-463: the dialogue dictionary
MockDialogue(i, pos, len) ==
    [text |-> IF pos + DialogueLength(len) < len
              THEN Slice(pos, pos + DialogueLength(len), len)
              ELSE SliceFrom(pos, len),
     character_name |-> MockSpeaker(i),
     start_index |-> pos,
     end_index |-> pos + DialogueLength(len),
     confidence |-> 80,
     emotion |-> MockEmotion(i)]
\* DialogueInfo.from_dict on a dictionary that holds all six keys
DialogueInfoFromDict(d) ==
    [text |-> d.text, character_name |-> d.character_name,
     start_index |-> d.start_index, end_index |-> d.end_index,
     confidence |-> d.confidence, emotion |-> d.emotion]

(***************************************************************************)
(* The inputs identify_dialogue is checked on: every text length up to     *)
(* MaxSmallLen, lengths around each threshold of the analysis, and, per    *)
(* text, the roster identify_characters returns for it, the empty roster,  *)
(* a roster of three and a roster of other names.                          *)
(***************************************************************************)
MaxSmallLen == 40
TextLengths ==
    (0..MaxSmallLen)
    \cup {99, 100, 499, 500, 600, 999, 1000, 4999, 5000, 9999, 10000, 24999,
          25000, 29999, 30000, 99999, 100000, 110000, 249999, 250000,
          999999,
          MaxTextChars, MaxTextChars + 1}
OtherRoster ==
    <<[name |-> Name("Alice", 0), is_narrator |-> FALSE, gender |-> "female",
       dialogue_count |-> 0],
      [name |-> Name("Bob", 0), is_narrator |-> FALSE, gender |-> "male",
       dialogue_count |-> 0]>>
Rosters(len) ==
    {MockCharacterAnalysis(len), MockCharacterAnalysis(30000), <<>>, OtherRoster}

GemIdle ==
    /\ api_key = FALSE
    /\ text_length = 0
    /\ characters = <<>>
    /\ d_pc = "idle"
    /\ d_i = 0
    /\ current_pos = 0
    /\ mock_dialogues = <<>>
    /\ d_result = NoResult

GemInit ==
    /\ api_key \in BOOLEAN
    /\ text_length \in TextLengths
    /\ characters \in Rosters(text_length)
    /\ d_pc = "start"
    /\ d_i = 0
    /\ current_pos = 0
    /\ mock_dialogues = <<>>
    /\ d_result = NoResult

\* identify_dialogue, lines 285-289: the checks made before the try block
DialogueValidate ==
    /\ d_pc = "start"
    /\ LET v == ValidateTextInput(text_length) IN
       IF ~v.ok
       THEN /\ d_result' = Raise(v.kind, v.msg)
            /\ d_pc' = "done"
       ELSE IF Len(characters) = 0
       THEN /\ d_result' = Raise("ValueError", "Character list cannot be empty")
            /\ d_pc' = "done"
       ELSE /\ d_result' = d_result
            /\ d_pc' = IF api_key THEN "request" ELSE "loop"
    /\ UNCHANGED <<api_key, text_length, characters, d_i, current_pos,
                   mock_dialogues>>
    /\ UNCHANGED <<parVars, ttsVars, chrVars, sugVars, ciVars>>

\* lines 293-305 and _make_api_request: the request sleeps, then runs the
\* "analyzeDialogue" branch, which is _mock_dialogue_analysis(text)
DialogueRequest ==
    /\ d_pc = "request"
    /\ d_pc' = "loop"
    /\ UNCHANGED <<api_key, text_length, characters, d_i, current_pos,
                   mock_dialogues, d_result>>
    /\ UNCHANGED <<parVars, ttsVars, chrVars, sugVars, ciVars>>

\* _mock_dialogue_analysis, lines 437-466: one pass of the for loop
DialogueIteration ==
    /\ d_pc = "loop"
    /\ IF d_i >= NumDialogues(text_length)
       THEN /\ d_pc' = "parse"
            /\ UNCHANGED <<d_i, current_pos, mock_dialogues>>
       ELSE IF current_pos + DialogueLength(text_length) >= text_length
       THEN /\ d_pc' = "parse"
            /\ UNCHANGED <<d_i, current_pos, mock_dialogues>>
       ELSE LET skipped == current_pos + NarrativeSkip(text_length) IN
            IF skipped >= text_length
            THEN /\ d_pc' = "parse"
                 /\ current_pos' = skipped
                 /\ UNCHANGED <<d_i, mock_dialogues>>
            ELSE /\ mock_dialogues' =
                      Append(mock_dialogues, MockDialogue(d_i, skipped, text_length))
                 /\ current_pos' = AdvancePast(skipped, DialogueLength(text_length))
                 /\ d_i' = d_i + 1
                 /\ d_pc' = "loop"
    /\ UNCHANGED <<api_key, text_length, characters, d_result>>
    /\ UNCHANGED <<parVars, ttsVars, chrVars, sugVars, ciVars>>

\* lines 308-313 and 317-322: every dictionary becomes a DialogueInfo
DialogueParse ==
    /\ d_pc = "parse"
    /\ d_result' = Return([k \in 1..Len(mock_dialogues) |->
                              DialogueInfoFromDict(mock_dialogues[k])])
    /\ d_pc' = "done"
    /\ UNCHANGED <<api_key, text_length, characters, d_i, current_pos,
                   mock_dialogues>>
    /\ UNCHANGED <<parVars, ttsVars, chrVars, sugVars, ciVars>>


(***************************************************************************)
(* identify_characters.  A character is kept by the fields the operations  *)
(* of the model read: name, is_narrator, gender and dialogue_count.        *)
(***************************************************************************)
\* _mock_character_analysis, lines 422-426: the dictionary returned
MockCharacterResponse(len) ==
    [characters |-> MockCharacterAnalysis(len),
     language_detected |-> "en",
     character_count |-> Len(MockCharacterAnalysis(len))]

\* CharacterInfo.from_dict on a dictionary of the analysis, which holds every
\* key read here
CharacterInfoFromMock(d) ==
    [name |-> d.name, is_narrator |-> d.is_narrator, gender |-> d.gender,
     dialogue_count |-> d.dialogue_count]

ChrIdle ==
    /\ c_pc = "idle"
    /\ c_requested = FALSE
    /\ c_analysed = FALSE
    /\ c_response = <<>>
    /\ c_result = NoResult

ChrInit ==
    /\ c_pc = "start"
    /\ c_requested = FALSE
    /\ c_analysed = FALSE
    /\ c_response = <<>>
    /\ c_result = NoResult

\* The service identify_characters is called on: with or without a provider
\* key, on a text of every length of TextLengths
GemCharactersInit ==
    /\ api_key \in BOOLEAN
    /\ text_length \in TextLengths
    /\ characters = <<>>
    /\ d_pc = "idle"
    /\ d_i = 0
    /\ current_pos = 0
    /\ mock_dialogues = <<>>
    /\ d_result = NoResult

\* identify_characters, line 229: the check made before the try block
CharactersValidate ==
    /\ c_pc = "start"
    /\ LET v == ValidateTextInput(text_length) IN
       IF ~v.ok
       THEN /\ c_result' = Raise(v.kind, v.msg)
            /\ c_pc' = "done"
       ELSE /\ c_result' = c_result
            /\ c_pc' = IF api_key THEN "request" ELSE "analyse"
    /\ UNCHANGED <<c_requested, c_analysed, c_response>>
    /\ UNCHANGED <<parVars, gemVars, ttsVars, sugVars, ciVars>>

\* lines 233-242 and _make_api_request: the request sleeps, then runs the
\* "analyzeCharacters" branch, which is _mock_character_analysis(text)
CharactersRequest ==
    /\ c_pc = "request"
    /\ c_requested' = TRUE
    /\ c_analysed' = TRUE
    /\ c_response' = <<MockCharacterResponse(text_length)>>
    /\ c_pc' = "parse"
    /\ UNCHANGED c_result
    /\ UNCHANGED <<parVars, gemVars, ttsVars, sugVars, ciVars>>

\* line 253: the mock response mode
CharactersAnalyse ==
    /\ c_pc = "analyse"
    /\ c_analysed' = TRUE
    /\ c_response' = <<MockCharacterResponse(text_length)>>
    /\ c_pc' = "parse"
    /\ UNCHANGED <<c_requested, c_result>>
    /\ UNCHANGED <<parVars, gemVars, ttsVars, sugVars, ciVars>>

\* lines 245-250 and 254-259: every dictionary becomes a CharacterInfo and
\* the list of them is returned
CharactersParse ==
    /\ c_pc = "parse"
    /\ LET chars == c_response[1].characters IN
       c_result' = Return([k \in 1..Len(chars) |-> CharacterInfoFromMock(chars[k])])
    /\ c_pc' = "done"
    /\ UNCHANGED <<c_requested, c_analysed, c_response>>
    /\ UNCHANGED <<parVars, gemVars, ttsVars, sugVars, ciVars>>

(***************************************************************************)
(* suggest_voices.  pitch, speed and confidence are in hundredths.  The    *)
(* dictionary returned, keyed by character name, is kept as a function     *)
(* from the names to the lists of suggestions.                             *)
(***************************************************************************)
Suggestion(v, n, p, sp, c) ==
    [voice_id |-> v, name |-> n, pitch |-> p, speed |-> sp, confidence |-> c]

\* _mock_voice_suggestions, lines 494-546: the list of one character
SuggestionsFor_GenderFirst(is_narrator, gender) ==
    IF gender = "male"
    THEN <<Suggestion("male_1", "Standard Male", 0, 100, 90),
           Suggestion("male_2", "Deep Male", -200, 95, 85)>>
    ELSE IF gender = "female"
    THEN <<Suggestion("female_1", "Standard Female", 100, 100, 90),
           Suggestion("female_2", "Soft Female", 200, 105, 85)>>
    ELSE IF is_narrator
    THEN <<Suggestion("narrator_1", "Clear Narrator", 0, 100, 95),
           Suggestion("narrator_2", "Storyteller", -100, 90, 90)>>
    ELSE <<Suggestion("neutral_1", "Neutral Voice", 0, 100, 80)>>
SuggestionsFor(is_narrator, gender) ==
    IF is_narrator
    THEN <<Suggestion("narrator_1", "Clear Narrator", 0, 100, 95),
           Suggestion("narrator_2", "Storyteller", -100, 90, 90)>>
    ELSE IF gender = "male"
    THEN <<Suggestion("male_1", "Standard Male", 0, 100, 90),
           Suggestion("male_2", "Deep Male", -200, 95, 85)>>
    ELSE IF gender = "female"
    THEN <<Suggestion("female_1", "Standard Female", 100, 100, 90),
           Suggestion("female_2", "Soft Female", 200, 105, 85)>>
    ELSE <<Suggestion("neutral_1", "Neutral Voice", 0, 100, 80)>>

\* CharacterInfo.to_dict, by the keys _mock_voice_suggestions uses
CharacterInfoToRead(c) ==
    [name |-> c.name, is_narrator |-> c.is_narrator, gender |-> c.gender]

\* lines 485-548: one pass per character, voice_suggestions[name] =
\* suggestions, so that the last character of a name sets the list of the name
MockVoiceSuggestions(char_list) ==
    [voice_suggestions |->
        [n \in {char_list[k].name : k \in 1..Len(char_list)} |->
            LET last == CHOOSE k \in 1..Len(char_list) :
                            /\ char_list[k].name = n
                            /\ \A j \in (k + 1)..Len(char_list) :
                                  char_list[j].name # n
            IN SuggestionsFor(char_list[last].is_narrator,
                              char_list[last].gender)]]

\* The rosters suggest_voices is checked on: the empty one, every roster of
\* one and of two characters of every (is_narrator, gender), named apart, and
\* two rosters of identify_characters.  gender "None" is Python's None.
SuggestGenders == {"None", "male", "female", "unspecified"}
Person(k) ==
    {[name |-> Name("Person", k), is_narrator |-> n, gender |-> g,
      dialogue_count |-> 0] : n \in BOOLEAN, g \in SuggestGenders}
SuggestRosters ==
    {<<>>}
    \cup {<<a>> : a \in Person(1)}
    \cup {<<a, b>> : a \in Person(1), b \in Person(2)}
    \cup {MockCharacterAnalysis(25000), MockCharacterAnalysis(100000)}

SugIdle ==
    /\ s_pc = "idle"
    /\ s_char_list = <<>>
    /\ s_result = NoResult

SugInit ==
    /\ s_pc = "start"
    /\ s_char_list = <<>>
    /\ s_result = NoResult

GemSuggestInit ==
    /\ api_key \in BOOLEAN
    /\ text_length = 0
    /\ characters \in SuggestRosters
    /\ d_pc = "idle"
    /\ d_i = 0
    /\ current_pos = 0
    /\ mock_dialogues = <<>>
    /\ d_result = NoResult

\* suggest_voices, lines 347-352: the check made before the try block
SuggestValidate ==
    /\ s_pc = "start"
    /\ IF Len(characters) = 0
       THEN /\ s_result' = Raise("ValueError", "Character list cannot be empty")
            /\ s_pc' = "done"
       ELSE /\ s_result' = s_result
            /\ s_pc' = IF api_key THEN "request" ELSE "mock"
    /\ UNCHANGED s_char_list
    /\ UNCHANGED <<parVars, gemVars, ttsVars, chrVars, ciVars>>

\* lines 353-367: the characters are converted with to_dict and the request
\* runs the "suggestVoices" branch, which is _mock_voice_suggestions
SuggestRequest ==
    /\ s_pc = "request"
    /\ LET char_data == [k \in 1..Len(characters) |->
                            CharacterInfoToRead(characters[k])]
       IN /\ s_char_list' = char_data
          /\ s_result' = Return(MockVoiceSuggestions(char_data).voice_suggestions)
    /\ s_pc' = "done"
    /\ UNCHANGED <<parVars, gemVars, ttsVars, chrVars, ciVars>>

\* lines 368-374: the mock response mode; _mock_voice_suggestions converts
\* the CharacterInfo objects itself (lines 478-483)
SuggestMock ==
    /\ s_pc = "mock"
    /\ LET char_list == [k \in 1..Len(characters) |->
                            CharacterInfoToRead(characters[k])]
       IN /\ s_char_list' = char_list
          /\ s_result' = Return(MockVoiceSuggestions(char_list).voice_suggestions)
    /\ s_pc' = "done"
    /\ UNCHANGED <<parVars, gemVars, ttsVars, chrVars, ciVars>>

(***************************************************************************)
(* CharacterInfo, with all its fields.  The keyword arguments of __init__  *)
(* and a dictionary are both records of Python values, in which Absent     *)
(* stands for an argument not passed and for a key not in the dictionary.  *)
(* A list is kept as a sequence of strings (a voice suggestion by its      *)
(* voice id).                                                              *)
(***************************************************************************)
\* bool(v) is False
Falsy(v) ==
    \/ v.t = "none"
    \/ v.t = "str" /\ v.s = ""
    \/ v.t = "list" /\ v.l = <<>>
    \/ v.t \in {"num", "bool"} /\ v.n = 0
\* v or d
OrElse(v, d) == IF Falsy(v) THEN d ELSE v
\* a keyword argument with its default
Arg(v, default) == IF v.t = "absent" THEN default ELSE v
\* data.get(key, default)
Get(v, default) == IF v.t = "absent" THEN default ELSE v

\* CharacterInfo.__init__, lines 34-56
CharacterInfoInit(a) ==
    [name |-> a.name,
     description |-> OrElse(Arg(a.description, PyNone), Str("")),
     dialogue_count |-> Arg(a.dialogue_count, Num(0)),
     confidence |-> Arg(a.confidence, Num(0)),
     is_narrator |-> Arg(a.is_narrator, PyBool(FALSE)),
     character_traits |-> OrElse(Arg(a.character_traits, PyNone), List(<<>>)),
     gender |-> Arg(a.gender, PyNone),
     age |-> Arg(a.age, PyNone),
     speaking_style |-> Arg(a.speaking_style, PyNone),
     voice_suggestions |-> OrElse(Arg(a.voice_suggestions, PyNone), List(<<>>))]

\* CharacterInfo.to_dict, lines 58-71
ToDict_NineKeys(c) ==
    [name |-> c.name,
     description |-> c.description,
     dialogue_count |-> c.dialogue_count,
     confidence |-> c.confidence,
     is_narrator |-> c.is_narrator,
     character_traits |-> c.character_traits,
     gender |-> c.gender,
     age |-> c.age,
     speaking_style |-> c.speaking_style,
     voice_suggestions |-> Absent]
ToDict(c) ==
    [name |-> c.name,
     description |-> c.description,
     dialogue_count |-> c.dialogue_count,
     confidence |-> c.confidence,
     is_narrator |-> c.is_narrator,
     character_traits |-> c.character_traits,
     gender |-> c.gender,
     age |-> c.age,
     speaking_style |-> c.speaking_style,
     voice_suggestions |-> c.voice_suggestions]

\* CharacterInfo.from_dict, lines 73-87 (data holds "name")
FromDict(data) ==
    CharacterInfoInit(
        [name |-> data.name,
         description |-> Get(data.description, Str("")),
         dialogue_count |-> Get(data.dialogue_count, Num(0)),
         confidence |-> Get(data.confidence, Num(0)),
         is_narrator |-> Get(data.is_narrator, PyBool(FALSE)),
         character_traits |-> Get(data.character_traits, List(<<>>)),
         gender |-> Get(data.gender, PyNone),
         age |-> Get(data.age, PyNone),
         speaking_style |-> Get(data.speaking_style, PyNone),
         voice_suggestions |-> Get(data.voice_suggestions, List(<<>>))])

\* The keyword arguments and the dictionaries a CharacterInfo is built from:
\* every optional field absent, None, empty or set
CharacterInputs ==
    [name : {Str("Alice")},
     description : {Absent, PyNone, Str(""), Str("A baker")},
     dialogue_count : {Absent, Num(0), Num(300)},
     confidence : {Absent, Num(85)},
     is_narrator : {Absent, PyBool(TRUE)},
     character_traits : {Absent, PyNone, List(<<>>), List(<<"brave", "kind">>)},
     gender : {Absent, PyNone, Str("female")},
     age : {Absent, PyNone, Str("adult")},
     speaking_style : {Absent, Str("casual")},
     voice_suggestions : {Absent, PyNone, List(<<>>), List(<<"female_1">>)}]

CiIdle ==
    /\ ci_pc = "idle"
    /\ ci_via = "init"
    /\ ci_in = [f \in {} |-> Absent]
    /\ ci_char = <<>>
    /\ ci_dict = <<>>
    /\ ci_back = <<>>

CiInit ==
    /\ ci_pc = "build"
    /\ ci_via \in {"init", "from_dict"}
    /\ ci_in \in CharacterInputs
    /\ ci_char = <<>>
    /\ ci_dict = <<>>
    /\ ci_back = <<>>

\* c = CharacterInfo(**ci_in)
CharacterInfoConstruct ==
    /\ ci_pc = "build"
    /\ ci_via = "init"
    /\ ci_char' = <<CharacterInfoInit(ci_in)>>
    /\ ci_pc' = "to_dict"
    /\ UNCHANGED <<ci_via, ci_in, ci_dict, ci_back>>
    /\ UNCHANGED <<parVars, gemVars, ttsVars, chrVars, sugVars>>

\* c = CharacterInfo.from_dict(ci_in)
CharacterInfoFromDict ==
    /\ ci_pc = "build"
    /\ ci_via = "from_dict"
    /\ ci_char' = <<FromDict(ci_in)>>
    /\ ci_pc' = "to_dict"
    /\ UNCHANGED <<ci_via, ci_in, ci_dict, ci_back>>
    /\ UNCHANGED <<parVars, gemVars, ttsVars, chrVars, sugVars>>

\* d = c.to_dict()
CharacterInfoToDict ==
    /\ ci_pc = "to_dict"
    /\ ci_dict' = <<ToDict(ci_char[1])>>
    /\ ci_pc' = "back"
    /\ UNCHANGED <<ci_via, ci_in, ci_char, ci_back>>
    /\ UNCHANGED <<parVars, gemVars, ttsVars, chrVars, sugVars>>

\* CharacterInfo.from_dict(d)
CharacterInfoBack ==
    /\ ci_pc = "back"
    /\ ci_back' = <<FromDict(ci_dict[1])>>
    /\ ci_pc' = "done"
    /\ UNCHANGED <<ci_via, ci_in, ci_char, ci_dict>>
    /\ UNCHANGED <<parVars, gemVars, ttsVars, chrVars, sugVars>>

(***************************************************************************)
(* KokoroTTSService.  A voice id is kept as the sequence of the tokens its *)
(* string joins with "_": "voice_1" is <<"voice", 1>> and                  *)
(* f"custom_{voice_id}_{n}" is <<"custom">> \o voice_id \o <<n>>.          *)
(* The methods are plain (not async) and take no lock, so calls made from  *)
(* several threads interleave statement by statement.                      *)
(***************************************************************************)
NumThreads == 2
MaxCalls == 2
Threads == 1..NumThreads

MaxSynthChars == 10000

EmptyId == <<>>
VoiceId(k) == <<"voice", k>>
UnknownId == <<"nonexistent", 0>>
\* line 311: f"custom_{voice_id}_{len(self.available_voices) + 1}"
MintId_NoCount(voice_id, count) == <<"custom">> \o voice_id
MintId(voice_id, count) == <<"custom">> \o voice_id \o <<count + 1>>

Voice(i, g, lang, custom, base) ==
    [id |-> i, gender |-> g, language |-> lang, is_custom |-> custom,
     base_voice_id |-> base]
\* lines 64-69
BuiltinVoices ==
    <<Voice(VoiceId(1), "female", "en-US", FALSE, EmptyId),
      Voice(VoiceId(2), "male", "en-US", FALSE, EmptyId),
      Voice(VoiceId(3), "female", "en-US", FALSE, EmptyId),
      Voice(VoiceId(4), "male", "en-US", FALSE, EmptyId)>>
NoVoice == Voice(EmptyId, "", "", FALSE, EmptyId)

Ids(voices) == {voices[k].id : k \in 1..Len(voices)}
\* any(voice["id"] == voice_id for voice in self.available_voices)
VoiceExists(voices, voice_id) == \E k \in 1..Len(voices) : voices[k].id = voice_id
\* next(voice for voice in self.available_voices if voice["id"] == voice_id):
\* the first match (called only when there is one)
FirstVoice(voices, voice_id) ==
    voices[CHOOSE k \in 1..Len(voices) :
              /\ voices[k].id = voice_id
              /\ \A j \in 1..(k - 1) : voices[j].id # voice_id]

\* A text, by its length and its number of whitespace-separated words
Text(len, words) == [len |-> len, words |-> words]
EmptyText == Text(0, 0)
HelloWorld == Text(11, 2)
\* "   ": not empty, and no word
Blanks == Text(3, 0)
\* "The quick brown fox jumps over the lazy dog"
Pangram == Text(43, 9)
LongText == Text(MaxSynthChars + 1, 1)

SynthParams ==
    {EmptyParams,
     [EmptyParams EXCEPT !.speed = Num(SpeedMax)],
     [EmptyParams EXCEPT !.pitch = Num(PitchMax + 1)],
     [EmptyParams EXCEPT !.speed = Num(SpeedMin), !.emotion = Str("bored")]}

NoCall == [op |-> "none", text |-> EmptyText, voice_id |-> EmptyId,
           params |-> EmptyParams, customizations |-> <<>>]
\* The locals of a call: voice_exists ("unset" until computed), base_voice,
\* new_voice_id, processed_params (a sequence of length 0 or 1), and two
\* flags: params_called (the call reached _process_params) and wrote_file.
NoLocals == [voice_exists |-> "unset", base_voice |-> NoVoice,
             new_voice_id |-> EmptyId, processed_params |-> <<>>,
             params_called |-> FALSE, wrote_file |-> FALSE]

\* The ids of the custom voices of the catalog
CustomIds == {i \in Ids(available_voices) : Len(i) > 2}
InvalidPitch == [EmptyParams EXCEPT !.pitch = Num(PitchMax + 1)]
\* The arguments of the generate_audio calls, as (text, voice_id, params):
\* a valid text with a built-in voice and every mapping of SynthParams, with
\* every custom voice of the catalog, with an unknown and with an empty
\* voice id; and the rejected texts
SynthInputs ==
    ({HelloWorld} \X {VoiceId(1)} \X SynthParams)
    \cup {<<HelloWorld, VoiceId(1), [EmptyParams EXCEPT !.speed = Num(DefaultSpeed)]>>,
          <<Pangram, VoiceId(2), [EmptyParams EXCEPT !.speed = Num(SpeedMin)]>>,
          <<Blanks, VoiceId(1), EmptyParams>>}
    \cup ({HelloWorld} \X CustomIds \X {EmptyParams})
    \cup ({HelloWorld} \X {UnknownId} \X {EmptyParams, InvalidPitch})
    \cup {<<HelloWorld, EmptyId, EmptyParams>>,
          <<EmptyText, VoiceId(1), EmptyParams>>,
          <<EmptyText, UnknownId, InvalidPitch>>,
          <<LongText, VoiceId(1), EmptyParams>>,
          <<LongText, EmptyId, EmptyParams>>}
\* The arguments of the customize_voice calls, as (voice_id, customizations)
CustomizeInputs ==
    (({UnknownId, VoiceId(1), VoiceId(2)} \cup CustomIds) \X {<<"pitch_shift">>})
    \cup {<<EmptyId, <<"pitch_shift">> >>, <<EmptyId, <<>> >>,
          <<VoiceId(1), <<>> >>, <<UnknownId, <<>> >>}

TtsIdle ==
    /\ initialized = FALSE
    /\ model = "None"
    /\ available_voices = <<>>
    /\ pc = [t \in Threads |-> "idle"]
    /\ call = [t \in Threads |-> NoCall]
    /\ loc = [t \in Threads |-> NoLocals]
    /\ result = [t \in Threads |-> NoResult]
    /\ files = {}
    /\ ncalls = 0

\* __init__, lines 37-48: the model is loaded at once when the model
\* directory exists, and on first use otherwise
TtsInit ==
    /\ \/ /\ initialized = FALSE
          /\ model = "None"
          /\ available_voices = <<>>
       \/ /\ initialized = TRUE
          /\ model = "MockKokoroTTSModel"
          /\ available_voices = BuiltinVoices
    /\ pc = [t \in Threads |-> "idle"]
    /\ call = [t \in Threads |-> NoCall]
    /\ loc = [t \in Threads |-> NoLocals]
    /\ result = [t \in Threads |-> NoResult]
    /\ files = {}
    /\ ncalls = 0

Free(t) == pc[t] \in {"idle", "done"} /\ ncalls < MaxCalls

Finish(t, r) ==
    /\ result' = [result EXCEPT ![t] = r]
    /\ pc' = [pc EXCEPT ![t] = "done"]

Goto(t, label) ==
    /\ pc' = [pc EXCEPT ![t] = label]
    /\ UNCHANGED result

AfterEnsure(op) ==
    CASE op = "generate_audio" -> "resolve"
      [] op = "customize_voice" -> "c_resolve"
      [] OTHER -> "g_return"

\* generate_audio, lines 118-128: the call and its input checks
GenerateAudioBegin(t) ==
    /\ Free(t)
    /\ \E in \in SynthInputs :
       LET txt == in[1]
           v == in[2]
           p == in[3]
       IN /\ call' = [call EXCEPT ![t] =
                 [op |-> "generate_audio", text |-> txt, voice_id |-> v,
                  params |-> p, customizations |-> <<>>]]
          /\ IF txt.len = 0
             THEN Finish(t, Raise("ValueError", "Text must be a non-empty string"))
             ELSE IF v = EmptyId
             THEN Finish(t, Raise("ValueError", "Voice ID must be a non-empty string"))
             ELSE IF txt.len > MaxSynthChars
             THEN Finish(t, Raise("ValueError", "Text is too long"))
             ELSE /\ pc' = [pc EXCEPT ![t] = "ensure"]
                  /\ result' = [result EXCEPT ![t] = NoResult]
    /\ loc' = [loc EXCEPT ![t] = NoLocals]
    /\ ncalls' = ncalls + 1
    /\ UNCHANGED <<initialized, model, available_voices, files>>
    /\ UNCHANGED <<parVars, gemVars, chrVars, sugVars, ciVars>>

\* customize_voice, lines 284-288: the input checks
CustomizeChecks_VoiceIdOnly(v, c) ==
    IF v = EmptyId
    THEN Raise("ValueError", "Voice ID must be a non-empty string")
    ELSE NoResult
CustomizeChecks(v, c) ==
    IF v = EmptyId
    THEN Raise("ValueError", "Voice ID must be a non-empty string")
    ELSE IF c = <<>>
    THEN Raise("ValueError", "Customizations must be a non-empty dictionary")
    ELSE NoResult

\* customize_voice, lines 284-288: the call and its input checks
CustomizeVoiceBegin(t) ==
    /\ Free(t)
    /\ \E in \in CustomizeInputs :
       LET v == in[1]
           c == in[2]
       IN /\ call' = [call EXCEPT ![t] =
                 [op |-> "customize_voice", text |-> EmptyText, voice_id |-> v,
                  params |-> EmptyParams, customizations |-> c]]
          /\ IF CustomizeChecks(v, c) # NoResult
             THEN Finish(t, CustomizeChecks(v, c))
             ELSE /\ pc' = [pc EXCEPT ![t] = "ensure"]
                  /\ result' = [result EXCEPT ![t] = NoResult]
    /\ loc' = [loc EXCEPT ![t] = NoLocals]
    /\ ncalls' = ncalls + 1
    /\ UNCHANGED <<initialized, model, available_voices, files>>
    /\ UNCHANGED <<parVars, gemVars, chrVars, sugVars, ciVars>>

\* get_available_voices, line 252
GetAvailableVoicesBegin(t) ==
    /\ Free(t)
    /\ call' = [call EXCEPT ![t] = [NoCall EXCEPT !.op = "get_available_voices"]]
    /\ pc' = [pc EXCEPT ![t] = "ensure"]
    /\ result' = [result EXCEPT ![t] = NoResult]
    /\ loc' = [loc EXCEPT ![t] = NoLocals]
    /\ ncalls' = ncalls + 1
    /\ UNCHANGED <<initialized, model, available_voices, files>>
    /\ UNCHANGED <<parVars, gemVars, chrVars, sugVars, ciVars>>

\* ensure_model_loaded, line 83, and _load_model up to line 63
EnsureModelLoaded(t) ==
    /\ pc[t] = "ensure"
    /\ IF initialized
       THEN /\ Goto(t, AfterEnsure(call[t].op))
            /\ UNCHANGED model
       ELSE /\ Goto(t, "load_voices")
            /\ model' = "MockKokoroTTSModel"
    /\ UNCHANGED <<initialized, available_voices, call, loc, files, ncalls>>
    /\ UNCHANGED <<parVars, gemVars, chrVars, sugVars, ciVars>>

\* _load_model, lines 64-69: the list is replaced by the built-in voices
LoadVoices(t) ==
    /\ pc[t] = "load_voices"
    /\ available_voices' = BuiltinVoices
    /\ Goto(t, "load_flag")
    /\ UNCHANGED <<initialized, model, call, loc, files, ncalls>>
    /\ UNCHANGED <<parVars, gemVars, chrVars, sugVars, ciVars>>

\* _load_model, line 70, and ensure_model_loaded, line 85
LoadFlag(t) ==
    /\ pc[t] = "load_flag"
    /\ initialized' = TRUE
    /\ Goto(t, AfterEnsure(call[t].op))
    /\ UNCHANGED <<model, available_voices, call, loc, files, ncalls>>
    /\ UNCHANGED <<parVars, gemVars, chrVars, sugVars, ciVars>>


\* generate_audio, lines 138-141: the voice gate
ResolveOutcome_Skipped(voices, voice_id) == NoResult
ResolveOutcome(voices, voice_id) ==
    IF VoiceExists(voices, voice_id)
    THEN NoResult
    ELSE Raise("ValueError", "Voice ID not found")

\* generate_audio, lines 178-180: whatever the try block raises is raised
\* again as TTSProcessingError
DefaultParams ==
    [pitch |-> Num(DefaultPitch), speed |-> Num(DefaultSpeed),
     emotion |-> Str("neutral"), emphasis |-> List(<<>>)]
WrapProcessingError_Swallowed(r) == IF r.ok THEN r ELSE Return(DefaultParams)
WrapProcessingError(r) ==
    IF r.ok THEN r ELSE Raise("TTSProcessingError", "Failed to generate audio")

GenerateAudioResolve(t) ==
    /\ pc[t] = "resolve"
    /\ LET r == ResolveOutcome(available_voices, call[t].voice_id) IN
       /\ loc' = [loc EXCEPT ![t].voice_exists =
                     IF VoiceExists(available_voices, call[t].voice_id)
                     THEN "yes" ELSE "no"]
       /\ IF r = NoResult THEN Goto(t, "synthesize") ELSE Finish(t, r)
    /\ UNCHANGED <<initialized, model, available_voices, call, files, ncalls>>
    /\ UNCHANGED <<parVars, gemVars, chrVars, sugVars, ciVars>>

\* generate_audio, lines 153-176: the result; the duration is
\* words / 150 / speed, kept as the fraction num / den
AudioResult_ScaledBySpeed(c, processed) ==
    [file |-> <<c.voice_id, c.text>>,
     duration |-> [num |-> c.text.words * processed.speed.n, den |-> 150 * 100],
     format |-> "mp3", sample_rate |-> 24000, text_length |-> c.text.len,
     voice_id |-> c.voice_id, parameters |-> processed]
AudioResult(c, processed) ==
    [file |-> <<c.voice_id, c.text>>,
     duration |-> [num |-> c.text.words * 100, den |-> 150 * processed.speed.n],
     format |-> "mp3", sample_rate |-> 24000, text_length |-> c.text.len,
     voice_id |-> c.voice_id, parameters |-> processed]

\* generate_audio, lines 143-180, which touch no state shared with another
\* call: the parameters are processed (line 147), then the file is written
\* (lines 153-158; open or write may raise OSError) and the result is built
GenerateAudioSynthesize(t) ==
    /\ pc[t] = "synthesize"
    /\ LET r == WrapProcessingError(ProcessParams(call[t].params)) IN
       IF ~r.ok
       THEN /\ loc' = [loc EXCEPT ![t].params_called = TRUE]
            /\ Finish(t, r)
            /\ UNCHANGED files
       ELSE \/ /\ files' = files \cup {<<call[t].voice_id, call[t].text>>}
               /\ loc' = [loc EXCEPT ![t].params_called = TRUE,
                                     ![t].processed_params = r.value,
                                     ![t].wrote_file = TRUE]
               /\ Finish(t, Return(AudioResult(call[t], r.value[1])))
            \/ /\ loc' = [loc EXCEPT ![t].params_called = TRUE,
                                     ![t].processed_params = r.value]
               /\ Finish(t, WrapProcessingError(Raise("OSError", "open")))
               /\ UNCHANGED files
    /\ UNCHANGED <<initialized, model, available_voices, call, ncalls>>
    /\ UNCHANGED <<parVars, gemVars, chrVars, sugVars, ciVars>>

\* customize_voice, lines 298-301
CustomizeVoiceResolve(t) ==
    /\ pc[t] = "c_resolve"
    /\ IF VoiceExists(available_voices, call[t].voice_id)
       THEN /\ loc' = [loc EXCEPT ![t].voice_exists = "yes"]
            /\ Goto(t, "c_base")
       ELSE /\ loc' = [loc EXCEPT ![t].voice_exists = "no"]
            /\ Finish(t, Raise("ValueError", "Base voice ID not found"))
    /\ UNCHANGED <<initialized, model, available_voices, call, files, ncalls>>
    /\ UNCHANGED <<parVars, gemVars, chrVars, sugVars, ciVars>>

\* customize_voice, line 310: next() raises StopIteration when the voice is
\* no longer in the list, and line 331 raises it again as TTSProcessingError
CustomizeVoiceBase(t) ==
    /\ pc[t] = "c_base"
    /\ IF VoiceExists(available_voices, call[t].voice_id)
       THEN /\ loc' = [loc EXCEPT ![t].base_voice =
                          FirstVoice(available_voices, call[t].voice_id)]
            /\ Goto(t, "c_mint")
       ELSE /\ Finish(t, Raise("TTSProcessingError", "Failed to customize voice"))
            /\ UNCHANGED loc
    /\ UNCHANGED <<initialized, model, available_voices, call, files, ncalls>>
    /\ UNCHANGED <<parVars, gemVars, chrVars, sugVars, ciVars>>

\* customize_voice, line 311: the id is minted from the current voice count
CustomizeVoiceMint(t) ==
    /\ pc[t] = "c_mint"
    /\ loc' = [loc EXCEPT ![t].new_voice_id =
                  MintId(call[t].voice_id, Len(available_voices))]
    /\ Goto(t, "c_append")
    /\ UNCHANGED <<initialized, model, available_voices, call, files, ncalls>>
    /\ UNCHANGED <<parVars, gemVars, chrVars, sugVars, ciVars>>

\* customize_voice, lines 314-327
NewVoice_RootBase(new_voice_id, base_voice, voice_id) ==
    Voice(new_voice_id, base_voice.gender, base_voice.language, TRUE,
          IF base_voice.is_custom THEN base_voice.base_voice_id ELSE voice_id)
NewVoice(new_voice_id, base_voice, voice_id) ==
    Voice(new_voice_id, base_voice.gender, base_voice.language, TRUE, voice_id)
CustomizeVoiceAppend(t) ==
    /\ pc[t] = "c_append"
    /\ available_voices' =
          Append(available_voices,
                 NewVoice(loc[t].new_voice_id, loc[t].base_voice, call[t].voice_id))
    /\ Finish(t, Return(loc[t].new_voice_id))
    /\ UNCHANGED <<initialized, model, call, loc, files, ncalls>>
    /\ UNCHANGED <<parVars, gemVars, chrVars, sugVars, ciVars>>

\* get_available_voices, line 254
GetAvailableVoicesReturn(t) ==
    /\ pc[t] = "g_return"
    /\ Finish(t, Return(available_voices))
    /\ UNCHANGED <<initialized, model, available_voices, call, loc, files, ncalls>>
    /\ UNCHANGED <<parVars, gemVars, chrVars, sugVars, ciVars>>

(***************************************************************************)
(* The specifications.                                                     *)
(***************************************************************************)
Init == ParIdle /\ GemIdle /\ TtsInit /\ ChrIdle /\ SugIdle /\ CiIdle

Next ==
    \E t \in Threads :
          \/ GenerateAudioBegin(t)
          \/ CustomizeVoiceBegin(t)
          \/ GetAvailableVoicesBegin(t)
          \/ EnsureModelLoaded(t)
          \/ LoadVoices(t)
          \/ LoadFlag(t)
          \/ GenerateAudioResolve(t)
          \/ GenerateAudioSynthesize(t)
          \/ CustomizeVoiceResolve(t)
          \/ CustomizeVoiceBase(t)
          \/ CustomizeVoiceMint(t)
          \/ CustomizeVoiceAppend(t)
          \/ GetAvailableVoicesReturn(t)

\* KokoroTTSService under calls from NumThreads threads
Spec == Init /\ [][Next]_vars

InitParams == ParInit /\ GemIdle /\ TtsIdle /\ ChrIdle /\ SugIdle /\ CiIdle
NextParams == CallProcessParams
\* _process_params on every raw parameter mapping of RawParams
SpecParams == InitParams /\ [][NextParams]_vars

InitDialogue == ParIdle /\ GemInit /\ TtsIdle /\ ChrIdle /\ SugIdle /\ CiIdle
NextDialogue ==
    \/ DialogueValidate
    \/ DialogueRequest
    \/ DialogueIteration
    \/ DialogueParse
\* identify_dialogue on every text length of TextLengths and roster
SpecDialogue == InitDialogue /\ [][NextDialogue]_vars

InitSeq == Init
NextSeq ==
    \/ GenerateAudioBegin(1)
    \/ CustomizeVoiceBegin(1)
    \/ GetAvailableVoicesBegin(1)
    \/ EnsureModelLoaded(1)
    \/ LoadVoices(1)
    \/ LoadFlag(1)
    \/ GenerateAudioResolve(1)
    \/ GenerateAudioSynthesize(1)
    \/ CustomizeVoiceResolve(1)
    \/ CustomizeVoiceBase(1)
    \/ CustomizeVoiceMint(1)
    \/ CustomizeVoiceAppend(1)
    \/ GetAvailableVoicesReturn(1)
\* KokoroTTSService under calls made one after another, by one thread
SpecSeq == InitSeq /\ [][NextSeq]_vars

InitCharacters ==
    ParIdle /\ GemCharactersInit /\ TtsIdle /\ ChrInit /\ SugIdle /\ CiIdle
NextCharacters ==
    \/ CharactersValidate
    \/ CharactersRequest
    \/ CharactersAnalyse
    \/ CharactersParse
\* identify_characters on every text length of TextLengths
SpecCharacters == InitCharacters /\ [][NextCharacters]_vars

InitSuggest ==
    ParIdle /\ GemSuggestInit /\ TtsIdle /\ ChrIdle /\ SugInit /\ CiIdle
NextSuggest ==
    \/ SuggestValidate
    \/ SuggestRequest
    \/ SuggestMock
\* suggest_voices on every roster of SuggestRosters
SpecSuggest == InitSuggest /\ [][NextSuggest]_vars

InitCharacterInfo ==
    ParIdle /\ GemIdle /\ TtsIdle /\ ChrIdle /\ SugIdle /\ CiInit
NextCharacterInfo ==
    \/ CharacterInfoConstruct
    \/ CharacterInfoFromDict
    \/ CharacterInfoToDict
    \/ CharacterInfoBack
\* CharacterInfo built from every input of CharacterInputs, then converted
\* to a dictionary and back
SpecCharacterInfo == InitCharacterInfo /\ [][NextCharacterInfo]_vars


(***************************************************************************)
(* The claims.                                                             *)
(***************************************************************************)
Generating(t) == call[t].op = "generate_audio"
Customizing(t) == call[t].op = "customize_voice"
Done(t) == pc[t] = "done"

\* The validation rules of a raw parameter mapping, key by key: a supplied
\* key is valid when it has the type and lies in the domain asked for
PitchValid(v) == IsNumber(v) /\ PitchMin <= v.n /\ v.n <= PitchMax
SpeedValid(v) == IsNumber(v) /\ SpeedMin <= v.n /\ v.n <= SpeedMax
EmotionValid(v) == IsStr(v) /\ v.s \in valid_emotions
EmphasisValid(v) == IsList(v)
RawParamsValid(p) ==
    /\ Has(p.pitch) => PitchValid(p.pitch)
    /\ Has(p.speed) => SpeedValid(p.speed)
    /\ Has(p.emotion) => EmotionValid(p.emotion)
    /\ Has(p.emphasis) => EmphasisValid(p.emphasis)

\* C1: when customize_voice calls on the same existing base voice run
\* concurrently, the ids they return are pairwise distinct and the catalog
\* never holds two profiles with the same id.
C1_ConcurrentDeriveIdsDistinct ==
    /\ \A j, k \in 1..Len(available_voices) :
          j # k => available_voices[j].id # available_voices[k].id
    /\ \A t, u \in Threads :
          (/\ t # u
           /\ Done(t) /\ Customizing(t) /\ result[t].ok
           /\ Done(u) /\ Customizing(u) /\ result[u].ok
           /\ call[t].voice_id = call[u].voice_id)
          => result[t].value[1] # result[u].value[1]

\* C2: for every valid text and every non-empty roster, the character_name
\* of every span identify_dialogue returns is the name of a character of
\* the roster passed in.
RosterNames == {characters[k].name : k \in 1..Len(characters)}
C2_SpanNamesResolveInRoster ==
    (d_pc = "done" /\ d_result.ok)
    => \A k \in 1..Len(d_result.value[1]) :
          d_result.value[1][k].character_name \in RosterNames

\* C3: every span identify_dialogue returns satisfies
\* 0 <= start_index < end_index <= len(text).
C3_SpanOffsetsWithinText ==
    (d_pc = "done" /\ d_result.ok)
    => \A k \in 1..Len(d_result.value[1]) :
          LET d == d_result.value[1][k] IN
          /\ 0 <= d.start_index
          /\ d.start_index < d.end_index
          /\ d.end_index <= text_length

\* C4: the spans identify_dialogue returns are listed in ascending
\* start_index order and do not overlap: each span's end_index is at most
\* the start_index of the span after it.  The same holds of the list under
\* construction after every pass of the loop.
OrderedDisjoint(spans) ==
    \A k \in 1..(Len(spans) - 1) :
       /\ spans[k].start_index <= spans[k + 1].start_index
       /\ spans[k].end_index <= spans[k + 1].start_index
C4_SpansOrderedDisjoint ==
    /\ OrderedDisjoint(mock_dialogues)
    /\ (d_pc = "done" /\ d_result.ok) => OrderedDisjoint(d_result.value[1])
C4_Witness ==
    /\ d_pc = "done" /\ d_result.ok
    /\ Len(d_result.value[1]) >= 3
    /\ d_result.value[1][1].start_index < d_result.value[1][1].end_index
    /\ d_result.value[1][1].end_index < d_result.value[1][2].start_index

\* C5: generate_audio with a valid text, a voice id of the catalog and an
\* invalid parameter fails with the parameter-validation error kind
\* (ValueError, as _process_params raises it), which is not the kind
\* (TTSProcessingError) a failure of the synthesis itself is raised as.
C5_InvalidParameterErrorKind ==
    \A t \in Threads :
       (/\ Done(t) /\ Generating(t)
        /\ loc[t].voice_exists = "yes"
        /\ ~RawParamsValid(call[t].params))
       => /\ ~result[t].ok
          /\ result[t].kind = "ValueError"
          /\ result[t].kind # WrapProcessingError(Raise("OSError", "open")).kind

\* C6: the gates of generate_audio run in the order text check, voice
\* resolution, parameter validation, audio rendering, and a failed gate
\* stops the call; a call with a valid text and a voice id that is not in
\* the catalog fails with ValueError "Voice ID not found" whatever its
\* parameters, without reaching _process_params or the audio file.
TextValid(txt) == 0 < txt.len /\ txt.len <= MaxSynthChars
C6_GateOrder ==
    \A t \in Threads :
       Generating(t) =>
          /\ loc[t].voice_exists # "unset"
                => TextValid(call[t].text) /\ call[t].voice_id # EmptyId
          /\ loc[t].params_called => loc[t].voice_exists = "yes"
          /\ loc[t].wrote_file
                => loc[t].params_called /\ loc[t].processed_params # <<>>
          /\ (Done(t) /\ ~TextValid(call[t].text))
                => ~result[t].ok /\ result[t].kind = "ValueError"
          /\ (Done(t) /\ TextValid(call[t].text) /\ call[t].voice_id = UnknownId)
                => loc[t].voice_exists = "no"
          /\ (Done(t) /\ loc[t].voice_exists = "no")
                => /\ result[t] = Raise("ValueError", "Voice ID not found")
                   /\ ~loc[t].params_called
                   /\ ~loc[t].wrote_file
C6_Witness ==
    \E t \in Threads :
       /\ Done(t) /\ Generating(t)
       /\ call[t].text = HelloWorld
       /\ call[t].voice_id = UnknownId
       /\ call[t].params = InvalidPitch
       /\ result[t] = Raise("ValueError", "Voice ID not found")

\* C7: no audio work happens in a generate_audio call whose raw parameters
\* are invalid: the audio file is written only in calls in which
\* _process_params has returned a complete parameter set.
Complete(processed) ==
    /\ Len(processed) = 1
    /\ \A key \in {"pitch", "speed", "emotion", "emphasis"} : Has(processed[1][key])
C7_NoAudioWorkOnInvalidParams ==
    \A t \in Threads :
       Generating(t) =>
          /\ ~RawParamsValid(call[t].params)
                => /\ ~loc[t].wrote_file
                   /\ Done(t) => ~result[t].ok
          /\ loc[t].wrote_file
                => /\ Complete(loc[t].processed_params)
                   /\ RawParamsValid(call[t].params)
                   /\ <<call[t].voice_id, call[t].text>> \in files
C7_Witness ==
    \E t \in Threads :
       /\ Done(t) /\ Generating(t)
       /\ loc[t].params_called
       /\ ~RawParamsValid(call[t].params)
       /\ ~loc[t].wrote_file
       /\ ~result[t].ok


\* C8: _process_params returns a supplied pitch and a supplied speed
\* unchanged whenever -10 <= pitch <= 10 and 0.5 <= speed <= 2.0, the
\* boundaries included (the other supplied keys being valid), and fails
\* whenever a supplied pitch or a supplied speed lies outside its range.
OutOfRange(v, lo, hi) == IsNumber(v) /\ (v.n < lo \/ v.n > hi)
C8_PitchSpeedRange ==
    pp_pc = "done" =>
       /\ (\/ OutOfRange(pp_params.pitch, PitchMin, PitchMax)
           \/ OutOfRange(pp_params.speed, SpeedMin, SpeedMax))
             => ~pp_result.ok /\ pp_result.kind = "ValueError"
       /\ (/\ Has(pp_params.pitch) => PitchValid(pp_params.pitch)
           /\ Has(pp_params.speed) => SpeedValid(pp_params.speed)
           /\ Has(pp_params.emotion) => EmotionValid(pp_params.emotion)
           /\ Has(pp_params.emphasis) => EmphasisValid(pp_params.emphasis))
             => pp_result.ok
       /\ pp_result.ok
             => /\ Has(pp_params.pitch)
                      => pp_result.value[1].pitch = pp_params.pitch
                /\ Has(pp_params.speed)
                      => pp_result.value[1].speed = pp_params.speed
C8_Witness ==
    /\ pp_pc = "done"
    /\ pp_params.pitch = Num(PitchMin)
    /\ pp_params.speed = Num(SpeedMax)
    /\ pp_result.ok
    /\ pp_result.value[1].pitch = Num(PitchMin)
    /\ pp_result.value[1].speed = Num(SpeedMax)

\* C9: _process_params is all-or-nothing: when a supplied key among pitch,
\* speed, emotion, emphasis is invalid, the call fails and returns no
\* parameter set, whatever the other keys; a result is returned only when
\* every supplied key is valid, and it holds each supplied value unchanged
\* and the default of each absent key.
OrDefault(v, default) == IF Has(v) THEN v ELSE default
C9_AllOrNothing ==
    pp_pc = "done" =>
       /\ ~RawParamsValid(pp_params)
             => /\ ~pp_result.ok
                /\ pp_result.kind = "ValueError"
                /\ pp_result.value = <<>>
       /\ RawParamsValid(pp_params)
             => /\ pp_result.ok
                /\ pp_result.value =
                      <<[pitch |-> OrDefault(pp_params.pitch, Num(DefaultPitch)),
                         speed |-> OrDefault(pp_params.speed, Num(DefaultSpeed)),
                         emotion |-> OrDefault(pp_params.emotion, Str("neutral")),
                         emphasis |-> OrDefault(pp_params.emphasis, List(<<>>))]>>
C9_Witness ==
    /\ pp_pc = "done"
    /\ pp_params.pitch = Num(DefaultPitch)
    /\ pp_params.speed = Absent
    /\ pp_params.emotion = Str("bored")
    /\ pp_params.emphasis = List(<<"word">>)
    /\ ~pp_result.ok
    /\ pp_result.value = <<>>

\* C10: a voice profile that is in the catalog is in the catalog in every
\* later state, at the same position, whatever generate_audio,
\* customize_voice and get_available_voices calls run and interleave,
\* the lazy model load included.
BuiltinsFirst ==
    Len(available_voices) > 0 =>
       /\ Len(available_voices) >= Len(BuiltinVoices)
       /\ SubSeq(available_voices, 1, Len(BuiltinVoices)) = BuiltinVoices
C10_ProfilesNeverRemoved ==
    /\ []BuiltinsFirst
    /\ [][\A k \in 1..Len(available_voices) :
             /\ k <= Len(available_voices')
             /\ available_voices'[k] = available_voices[k]]_vars


\* What get_available_voices would return if it were called now: the
\* catalog, which a first use loads
Listed == IF initialized THEN available_voices ELSE BuiltinVoices
ListedIds == [k \in 1..Len(Listed) |-> Listed[k].id]
\* The running customize_voice call of t is one the claim says fails
MustFail(t) ==
    /\ Customizing(t)
    /\ \/ call[t].customizations = <<>>
       \/ \A k \in 1..Len(ListedIds) : ListedIds[k] # call[t].voice_id

\* C11: when customize_voice calls run one after another, no step of a call
\* whose base voice id is not in the catalog, or whose customizations are
\* empty, changes the ids get_available_voices lists or their order, and the
\* call ends with an error.
C11_FailedCustomizeAppendsNothing ==
    [][\A t \in Threads :
          MustFail(t)' =>
             /\ ListedIds' = ListedIds
             /\ Done(t)' => ~result'[t].ok]_vars
C11_Witness ==
    \E t \in Threads :
       /\ Done(t)
       /\ Customizing(t)
       /\ ~result[t].ok
       /\ call[t].customizations # <<>>
       /\ call[t].voice_id = UnknownId
       /\ \E k \in 1..Len(available_voices) : available_voices[k].is_custom

\* The step in which the customize_voice call of t returns
CustomizeReturns(t) ==
    /\ Customizing(t)
    /\ ~Done(t)
    /\ Done(t)'
    /\ result'[t].ok
LastVoice(voices) == voices[Len(voices)]

\* C12: under any interleaving, the step in which a customize_voice call
\* returns appends one profile to the catalog: it has the returned id,
\* is_custom = true, the base id passed in as base_voice_id, and the gender
\* and language of the catalog profile of that base id, custom or built-in.
\* No other step appends to the catalog.
C12_SuccessfulCustomizeAppendsOne ==
    [][/\ \A t \in Threads :
             CustomizeReturns(t) =>
                /\ Len(available_voices') = Len(available_voices) + 1
                /\ SubSeq(available_voices', 1, Len(available_voices))
                      = available_voices
                /\ LET p == LastVoice(available_voices') IN
                   /\ p.id = result'[t].value[1]
                   /\ p.is_custom
                   /\ p.base_voice_id = call[t].voice_id
                   /\ \A k \in 1..Len(available_voices) :
                         available_voices[k].id = call[t].voice_id =>
                            /\ p.gender = available_voices[k].gender
                            /\ p.language = available_voices[k].language
       /\ available_voices' # available_voices =>
             \/ available_voices' = BuiltinVoices
             \/ \E t \in Threads : CustomizeReturns(t)]_vars
C12_Witness ==
    \E t \in Threads :
       /\ Done(t)
       /\ Customizing(t)
       /\ result[t].ok
       /\ Len(call[t].voice_id) > 2
       /\ LastVoice(available_voices).id = result[t].value[1]
       /\ LastVoice(available_voices).base_voice_id = call[t].voice_id
       /\ \E k \in 1..Len(available_voices) :
             /\ available_voices[k].id = call[t].voice_id
             /\ available_voices[k].is_custom
             /\ available_voices[k].gender = LastVoice(available_voices).gender

\* identify_characters has returned in fallback mode (no provider key)
FallbackReturned == c_pc = "done" /\ ~api_key /\ c_result.ok
Roster == c_result.value[1]

\* C13: with no provider key, identify_characters on a text of 1 to
\* 1,000,000 characters returns a roster of min(max(2, L // 10000), 10)
\* characters, so between 2 and 10, and of 2 for a text of 25,000.
C13_FallbackRosterSize ==
    (c_pc = "done" /\ ~api_key /\ text_length >= 1 /\ text_length <= 1000000) =>
        /\ c_result.ok
        /\ LET scaled == text_length \div 10000
               clamped == IF scaled < 2 THEN 2 ELSE IF scaled > 10 THEN 10 ELSE scaled
           IN Len(Roster) = clamped
        /\ Len(Roster) >= 2
        /\ Len(Roster) <= 10
        /\ text_length = 25000 => Len(Roster) = 2
C13_Witness ==
    /\ FallbackReturned
    /\ text_length = 249999
    /\ c_analysed
    /\ Len(c_result.value[1]) = 10

\* C14: in every roster identify_characters returns in fallback mode, the
\* character at index 0 is the narrator, no other character is, and no two
\* characters have the same name.
C14_OneNarratorDistinctNames ==
    FallbackReturned =>
        /\ Len(Roster) >= 1
        /\ Roster[1].is_narrator
        /\ \A k \in 2..Len(Roster) : ~Roster[k].is_narrator
        /\ \A j, k \in 1..Len(Roster) : j # k => Roster[j].name # Roster[k].name
C14_Witness ==
    /\ c_pc = "done"
    /\ ~api_key
    /\ c_result.ok
    /\ Len(c_result.value[1]) >= 3
    /\ c_result.value[1][1].is_narrator
    /\ c_result.value[1][2].name # c_result.value[1][3].name

\* C15: the value identify_characters returns in fallback mode carries a
\* degraded flag that is true.
C15_FallbackResultFlagged ==
    FallbackReturned =>
        \E k \in 1..Len(Roster) :
           /\ "degraded" \in DOMAIN Roster[k]
           /\ Roster[k].degraded = TRUE

\* C16: identify_characters ends with ValueError on an empty text and on a
\* text of more than 1,000,000 characters, and in such a call neither
\* _make_api_request nor _mock_character_analysis is ever reached; a text of
\* exactly 1,000,000 characters is not rejected.
C16_RejectedBeforeAnyRequest ==
    /\ (text_length = 0 \/ text_length > 1000000) =>
          /\ ~c_requested
          /\ ~c_analysed
          /\ c_response = <<>>
          /\ c_pc \in {"start", "done"}
          /\ c_pc = "done" => (~c_result.ok /\ c_result.kind = "ValueError")
    /\ (text_length = 1000000 /\ c_pc = "done") =>
          /\ c_result.ok
          /\ c_analysed
          /\ c_requested = api_key
C16_Witness ==
    /\ c_pc = "done"
    /\ api_key
    /\ text_length = 1000001
    /\ c_result.kind = "ValueError"
    /\ ~c_requested

\* The response of the provider holds a span whose character_name is the
\* name of no character of the roster
ForeignSpan ==
    \E k \in 1..Len(mock_dialogues) :
       \A j \in 1..Len(characters) :
          characters[j].name # mock_dialogues[k].character_name

\* C17: identify_dialogue ends with an error, and returns no span, when the
\* roster is empty, and when a provider key is set and the response holds a
\* span whose character_name is not in the roster.
C17_AttributionErrorOnForeignSpan ==
    d_pc = "done" =>
        /\ Len(characters) = 0 => (~d_result.ok /\ d_result.value = <<>>)
        /\ (api_key /\ ForeignSpan) => (~d_result.ok /\ d_result.value = <<>>)

\* The number of spans that carry the name n
SpansNamed(spans, n) ==
    Cardinality({k \in 1..Len(spans) : spans[k].character_name = n})

\* C18: after a successful identify_dialogue, the roster is one of the
\* rosters the call may have been given with the dialogue_count of each
\* character grown by the number of returned spans that carry its name, and
\* every other field as passed in.
C18_DialogueCountsGrow ==
    (d_pc = "done" /\ d_result.ok) =>
        \E given \in Rosters(text_length) :
           /\ Len(given) = Len(characters)
           /\ \A k \in 1..Len(given) :
                 characters[k] =
                    [given[k] EXCEPT !.dialogue_count =
                        given[k].dialogue_count
                        + SpansNamed(d_result.value[1], given[k].name)]

\* The list has two suggestions, of confidences c1 then c2, the second of
\* pitch p2 and speed sp2
TwoSuggestions(l, c1, c2, p2, sp2) ==
    /\ Len(l) = 2
    /\ l[1].confidence = c1
    /\ l[2].confidence = c2
    /\ l[2].pitch = p2
    /\ l[2].speed = sp2

\* C19: suggest_voices returns, under the name of every character of a
\* roster of distinct names, the list set by is_narrator and gender alone:
\* narrator 0.95 / 0.90 (second: pitch -1, speed 0.9); otherwise male
\* 0.90 / 0.85 (pitch -2, speed 0.95), female 0.90 / 0.85 (pitch +2, speed
\* 1.05), any other gender one suggestion of 0.80; every list is in
\* descending order of confidence.
C19_SuggestionsByNarratorAndGender ==
    (s_pc = "done" /\ Len(characters) > 0) =>
        /\ s_result.ok
        /\ DOMAIN s_result.value[1] =
              {characters[k].name : k \in 1..Len(characters)}
        /\ \A k \in 1..Len(characters) :
              LET c == characters[k]
                  l == s_result.value[1][c.name]
              IN /\ c.is_narrator => TwoSuggestions(l, 95, 90, -100, 90)
                 /\ (~c.is_narrator /\ c.gender = "male") =>
                       TwoSuggestions(l, 90, 85, -200, 95)
                 /\ (~c.is_narrator /\ c.gender = "female") =>
                       TwoSuggestions(l, 90, 85, 200, 105)
                 /\ (~c.is_narrator /\ c.gender \notin {"male", "female"}) =>
                       (Len(l) = 1 /\ l[1].confidence = 80)
                 /\ \A j \in 1..(Len(l) - 1) :
                       l[j].confidence >= l[j + 1].confidence
C19_Witness ==
    /\ s_pc = "done"
    /\ s_result.ok
    /\ Len(characters) = 2
    /\ characters[1].is_narrator
    /\ characters[1].gender = "male"
    /\ ~characters[2].is_narrator
    /\ characters[2].gender = "unspecified"
    /\ Len(s_result.value[1][characters[1].name]) = 2
    /\ Len(s_result.value[1][characters[2].name]) = 1

\* The dictionary holds the key "name" and no other
NameOnly(data) == \A f \in DOMAIN data \ {"name"} : data[f] = Absent

\* C20: for a CharacterInfo c built by __init__ or by from_dict, with every
\* optional field passed, passed as None or not passed,
\* from_dict(c.to_dict()) has the value of c in each of the ten fields; and
\* from_dict of a dictionary that holds a name only has description "",
\* dialogue_count 0, confidence 0.0, is_narrator False, character_traits []
\* and gender, age and speaking_style None.
C20_DictRoundTrip ==
    /\ ci_pc = "done" =>
          \A f \in {"name", "description", "dialogue_count", "confidence",
                    "is_narrator", "character_traits", "gender", "age",
                    "speaking_style", "voice_suggestions"} :
             /\ f \in DOMAIN ci_back[1]
             /\ ci_back[1][f] = ci_char[1][f]
    /\ (ci_via = "from_dict" /\ ci_char # <<>> /\ NameOnly(ci_in)) =>
          /\ ci_char[1].name = ci_in.name
          /\ ci_char[1].description = Str("")
          /\ ci_char[1].dialogue_count = Num(0)
          /\ ci_char[1].confidence = Num(0)
          /\ ci_char[1].is_narrator = PyBool(FALSE)
          /\ ci_char[1].character_traits = List(<<>>)
          /\ ci_char[1].gender = PyNone
          /\ ci_char[1].age = PyNone
          /\ ci_char[1].speaking_style = PyNone
C20_Witness ==
    /\ ci_pc = "done"
    /\ ci_via = "init"
    /\ ci_in.description = PyNone
    /\ ci_in.character_traits = Absent
    /\ ci_in.gender = PyNone
    /\ ci_in.voice_suggestions = List(<<"female_1">>)
    /\ ci_dict[1].description = Str("")
    /\ ci_back[1].character_traits = List(<<>>)
    /\ ci_back[1].voice_suggestions = List(<<"female_1">>)

\* The speed a call asks for, in hundredths: 1.0 when it passes none
RequestedSpeed(c) ==
    IF c.params.speed.t = "absent" THEN 100 ELSE c.params.speed.n

\* C21: under any interleaving, every generate_audio call that returns has
\* a duration d with d * 150 * speed = the number of words of the text,
\* where speed is the speed passed in, or 1.0 when none was; d is 2/150 for
\* "Hello world" at speed 1.0, and d is never negative.
C21_DurationFromWordsAndSpeed ==
    \A t \in Threads :
       (Done(t) /\ Generating(t) /\ result[t].ok) =>
          LET d == result[t].value[1].duration
              words == call[t].text.words
              speed == RequestedSpeed(call[t])
          IN /\ d.den > 0
             /\ d.num >= 0
             /\ d.num * 150 * speed = words * 100 * d.den
             /\ (call[t].text = Text(11, 2) /\ speed = 100) =>
                   d.num * 150 = 2 * d.den
C21_Witness ==
    \E t \in Threads :
       /\ Done(t)
       /\ Generating(t)
       /\ result[t].ok
       /\ call[t].text.words = 9
       /\ call[t].params.speed = Num(50)
       /\ result[t].value[1].duration.num * 150 = 18 * result[t].value[1].duration.den

\* No two profiles of the catalog have the same id
CatalogIdsDistinct ==
    \A j, k \in 1..Len(available_voices) :
       j # k => available_voices[j].id # available_voices[k].id

\* C22: when customize_voice calls run one after another, the id a call
\* returns is the id of no profile that is in the catalog when the call
\* appends its own, whatever the base, built-in or custom; so the ids of the
\* catalog are pairwise distinct in every state.
C22_SequentialIdsDistinct ==
    /\ []CatalogIdsDistinct
    /\ [][\A t \in Threads :
             (Customizing(t) /\ ~Done(t) /\ Done(t)' /\ result'[t].ok) =>
                /\ \A k \in 1..Len(available_voices) :
                      available_voices[k].id # result'[t].value[1]
                /\ \A k \in 1..Len(BuiltinVoices) :
                      BuiltinVoices[k].id # result'[t].value[1]]_vars
C22_Witness ==
    /\ Done(1)
    /\ Customizing(1)
    /\ result[1].ok
    /\ Len(available_voices) = Len(BuiltinVoices) + 2
    /\ call[1].voice_id = available_voices[Len(BuiltinVoices) + 1].id
    /\ result[1].value[1] = available_voices[Len(BuiltinVoices) + 2].id
    /\ available_voices[Len(BuiltinVoices) + 1].is_custom

\* C23: for every valid text, the text of every span identify_dialogue
\* returns in fallback mode is the slice of the source text from start_index
\* to end_index, and its length is end_index - start_index.
C23_SpanTextIsSlice ==
    (d_pc = "done" /\ ~api_key /\ d_result.ok) =>
        \A k \in 1..Len(d_result.value[1]) :
           LET d == d_result.value[1][k] IN
           /\ d.text = Slice(d.start_index, d.end_index, text_length)
           /\ d.text.to - d.text.from = d.end_index - d.start_index
=============================================================================
